---- MODULE Spec2Model ----
(***************************************************************************)
(* Model of src/plugins/npm-probe.js: the three transforms (moving         *)
(* average, interval histogram per day, publish percentage per day) and    *)
(* the bootstrap / live processor that feeds them.                         *)
(*                                                                         *)
(* Conventions.                                                            *)
(*  - JavaScript arrays are 0-based, TLA+ sequences 1-based: the element   *)
(*    the code calls a[j] is a[j + 1] here.  Loop counters (i, k,          *)
(*    interval) keep their JavaScript values.                              *)
(*  - Numbers are exact.  A moving-average value v is kept as the          *)
(*    numerator v * n over the window size n, a bucket's days as the       *)
(*    numerator days * pagelet.day, so that no division is rounded.        *)
(*  - Time is counted in units of which DayLen make one local day.         *)
(*  - Objects that the code copies or shares live in a heap, a sequence    *)
(*    indexed by reference, so that a copy and a second reference to the   *)
(*    same object differ.                                                  *)
(*  - An exception leaves the handler at the statement that throws; what   *)
(*    the handler did before stays done.  Whether the process survives is  *)
(*    not decided here: every behaviour may stop at any state.             *)
(***************************************************************************)
EXTENDS Integers, Sequences, FiniteSets, TLC

\* ---------------------------------------------------------------- bounds
MaxWindow == 3      \* window sizes 0 (unspecified) .. MaxWindow
MaxLen == 3         \* samples given to movingAverage
MaxThreshold == 3   \* interval thresholds 1 .. MaxThreshold
MaxFold == 3        \* samples folded into one day's state
MaxDays == 2        \* the clock and the sample starts run over MaxDays days
MaxData == 2        \* samples given to a transform
MaxEvents == 2      \* probe::ran events emitted
MaxHistory == 10    \* ping samples list() delivers to the long-running server

\* ------------------------------------------------------ program constants
DefaultSteps == 5   \* n = n || 5
LiveSteps == 3      \* ping: movingAverage(3)
SliceLen == 10      \* cache[type][registry].slice(-10)
NaN == -1           \* the not-a-number value (metrics are naturals)
undefined == -2     \* the value of an unassigned var
Infinity == 1000000 \* the value of n / 0 for n > 0, and of its rounding
DayLen == 6         \* the length of a local day (setHours(0, 0, 0, 0))
IntervalsDay == 6   \* pagelet.intervals.day
PublishInterval == 2 \* Collector.probes.publish.interval

Types == {"ping", "delta", "publish"}
Registries == {"r1", "r2"}
Metrics == {"latency", "size"}   \* the metric names a ping sample may carry
Vals == {0, 1}                   \* the values of a metric
Starts == {1, 2}                 \* the start times of a ping sample
\* the values of results.modules of a delta sample
ModuleLists == {<<>>, <<"a">>, <<"a", "a">>, <<"a", "b">>}

VARIABLES
  intervals,  \* pagelet.intervals: the thresholds, in Object.keys order
  base,       \* the templates captured by transform.delta and .publish
  now,        \* the wall clock, read by new Date()
  maN,        \* movingAverage: the window size asked for (0: unspecified)
  maData,     \* movingAverage: the samples
  maOut,      \* movingAverage: the points returned
  maDone,     \* movingAverage: execute has run
  tuMemo,     \* timeUnit: the state of one day
  tuPrev,     \* timeUnit: that state before the last sample was folded
  tuProbe,    \* timeUnit: the last sample folded
  tuCount,    \* timeUnit: the number of samples folded
  pcDay,      \* percentage: the day key of the state being folded
  pcMemo,     \* percentage: the state of that day
  pcPrev,     \* percentage: that state before the last sample was folded
  pcProbe,    \* percentage: the last sample folded
  pcCount,    \* percentage: the number of samples folded
  trType,     \* transform: the type whose transform is applied
  trData,     \* transform: the samples it is applied to
  trOuts,     \* transform: the output of each invocation so far
  trDays,     \* transform: the local day of each invocation so far
  fetchSt,    \* server: each list() call: "pending", "ok" or "err"
  called,     \* server: async.parallel has called fetched
  cache,      \* server: the results of async.parallel, fetched's cache
  data,       \* server: fetched's data, per type and registry
  installed,  \* server: collector.data = data has run
  listening,  \* server: ran is registered for probe::ran
  sent,       \* server: the messages given to pipe.primus.write
  hist,       \* history: cache as the list() calls delivered it
  log         \* history: the probe::ran events emitted so far

cfgVars == <<intervals, base>>
maVars == <<maN, maData, maOut, maDone>>
tuVars == <<tuMemo, tuPrev, tuProbe, tuCount>>
pcVars == <<pcDay, pcMemo, pcPrev, pcProbe, pcCount>>
trVars == <<trType, trData, trOuts, trDays>>
srvVars == <<fetchSt, called, cache, data, installed, listening, sent, hist, log>>
vars == <<cfgVars, now, maVars, tuVars, pcVars, trVars, srvVars>>

\* ------------------------------------------------------------ JS helpers
EmptyObj == [x \in {} |-> 0]

\* a value the || operator lets through: not undefined, not 0, not NaN
Truthy(v) == v # NaN /\ v # 0 /\ v # undefined

\* obj[key] / n as a numerator over n; undefined / n is NaN
Over(obj, key) == IF key \in DOMAIN obj THEN obj[key] ELSE NaN

\* a + b on numerators; NaN is absorbing
Plus(a, b) == IF a = NaN \/ b = NaN THEN NaN ELSE a + b

InSeq(x, s) == \E j \in 1..Len(s) : s[j] = x

\* (a variant that keeps the last two elements only)
SliceLastTwo(s, n) ==
  IF Len(s) <= 2 THEN s ELSE SubSeq(s, Len(s) - 1, Len(s))

\* array.slice(-n)
SliceLast(s, n) ==
  IF Len(s) <= n THEN s ELSE SubSeq(s, Len(s) - n + 1, Len(s))

\* ------------------------------------------------------- movingAverage
\* n = n || 5
Steps(n) == IF n = 0 THEN DefaultSteps ELSE n

\* original[k > 0 ? k : 0]
Clamped(original, k) == original[(IF k > 0 THEN k ELSE 0) + 1]

\* (a variant that forgets the share of the sample itself)
ForInNoSeed(values, k, probe, original) ==
  [metric \in DOMAIN probe.results |->
     Plus(IF metric \in DOMAIN values /\ Truthy(values[metric])
          THEN values[metric]
          ELSE 0,
          Over(Clamped(original, k).results, metric))]

\* the body of the while loop for one k: the for-in over probe.results
\*   result.values[data] = result.values[data] || probe.results[data] / n;
\*   result.values[data] += original[k > 0 ? k : 0].results[data] / n;
ForIn(values, k, probe, original) ==
  [metric \in DOMAIN probe.results |->
     Plus(IF metric \in DOMAIN values /\ Truthy(values[metric])
          THEN values[metric]
          ELSE Over(probe.results, metric),
          Over(Clamped(original, k).results, metric))]

\* while (++k < i) { ... }, entered with k not yet incremented
RECURSIVE While(_, _, _, _, _)
While(values, k, i, probe, original) ==
  IF k + 1 < i
  THEN While(ForIn(values, k + 1, probe, original), k + 1, i, probe, original)
  ELSE values

\* (a variant that stamps every point with the start of the first sample)
mapFirstStart(probe, i, original, n) ==
  [t |-> original[1].start, values |-> While(EmptyObj, i - n, i, probe, original)]

\* function map(probe, i, original), n the window size of the closure
map(probe, i, original, n) ==
  [t |-> probe.start, values |-> While(EmptyObj, i - n, i, probe, original)]

\* movingAverage(n)(samples)
movingAverage(n, samples) ==
  [j \in 1..Len(samples) |-> map(samples[j], j - 1, samples, Steps(n))]

\* ------------------------------------------------------------ timeUnit
\* probe.results && probe.results.lag
HasLag(probe) == "lag" \in DOMAIN probe.results

\* one call of function each(key, i): st is [memo, interval], the array
\* and the var the callback closes over.  The var days is never assigned.
each(st, i, probe) ==
  IF HasLag(probe)
  THEN LET days == undefined
           mean == probe.results.lag.mean
           memo == [st.memo EXCEPT
                      ![i + 1].days = @ + (IF Truthy(days) THEN days ELSE mean)]
       IN IF Truthy(st.interval)
          THEN [memo |-> memo, interval |-> st.interval]
          ELSE IF mean <= intervals[i + 1]
               THEN [memo |-> memo, interval |-> i]
               ELSE [memo |-> memo, interval |-> st.interval]
  ELSE st

\* position.forEach(each), from index i on
RECURSIVE forEach(_, _, _)
forEach(st, i, probe) ==
  IF i >= Len(intervals) THEN st
  ELSE forEach(each(st, i, probe), i + 1, probe)

\* (a variant that falls back to the first interval)
DefaultedFirst(interval) ==
  IF Truthy(interval) THEN interval ELSE 0

\* if (!interval) interval = position.length - 1;
Defaulted(interval) ==
  IF Truthy(interval) THEN interval ELSE Len(intervals) - 1

\* Array.prototype.push.apply(modules, probe.results.modules.map(...)
\*   .filter(Boolean)): the argument is computed before anything is pushed
Pushed(modules, added) ==
  modules \o SelectSeq(added, LAMBDA module : ~InSeq(module, modules))

\* function timeUnit(memo, probe)
timeUnit(memo, probe) ==
  LET st == forEach([memo |-> memo, interval |-> undefined], 0, probe)
      interval == Defaulted(st.interval)
      counted == [st.memo EXCEPT ![interval + 1].n = @ + 1]
  IN IF "modules" \in DOMAIN probe.results
     THEN [counted EXCEPT ![interval + 1].modules =
                            Pushed(@, probe.results.modules)]
     ELSE counted

\* ------------------------------------------------------------ percentage
\* new Date(t).setHours(0, 0, 0, 0): the local midnight at or before t
Midnight(t) == (t \div DayLen) * DayLen

\* Math.round(n / total * 100); n / 0 is Infinity for n > 0
Rounded(n, total) ==
  IF total = 0 THEN Infinity ELSE (200 * n + total) \div (2 * total)

\* (a variant that leaves the failure slot's lower alone)
percentageUnlinked(memo, probe) ==
  LET day == Midnight(now)
      diff == IF probe.start > day THEN probe.start - day ELSE IntervalsDay
      done == diff \div PublishInterval
      state == probe.results.published
      synced == IF done > memo[state + 1].total
                THEN [j \in 1..2 |-> [memo[j] EXCEPT !.total = done]]
                ELSE memo
      counted == [synced EXCEPT ![state + 1].n = @ + 1]
  IN [counted EXCEPT ![state + 1].percentage =
        Rounded(counted[state + 1].n, counted[state + 1].total)]

\* (a variant that keeps a total per slot)
percentageOwnTotal(memo, probe) ==
  LET day == Midnight(now)
      diff == IF probe.start > day THEN probe.start - day ELSE IntervalsDay
      done == diff \div PublishInterval
      state == probe.results.published
      synced == IF done > memo[state + 1].total
                THEN [memo EXCEPT ![state + 1].total = done]
                ELSE memo
      counted == [synced EXCEPT ![state + 1].n = @ + 1]
      rated == [counted EXCEPT ![state + 1].percentage =
                  Rounded(counted[state + 1].n, counted[state + 1].total)]
  IN [rated EXCEPT ![1].lower = rated[2].percentage]

\* function percentage(memo, probe); memo[0] is failure, memo[1] success
percentage(memo, probe) ==
  LET day == Midnight(now)
      diff == IF probe.start > day THEN probe.start - day ELSE IntervalsDay
      done == diff \div PublishInterval
      state == probe.results.published
      synced == IF done > memo[state + 1].total
                THEN [j \in 1..2 |-> [memo[j] EXCEPT !.total = done]]
                ELSE memo
      counted == [synced EXCEPT ![state + 1].n = @ + 1]
      rated == [counted EXCEPT ![state + 1].percentage =
                  Rounded(counted[state + 1].n, counted[state + 1].total)]
  IN [rated EXCEPT ![1].lower = rated[2].percentage]

\* ---------------------------------------------------------- groupPerDay
\* (a variant that hands back the object itself)
cloneShared(heap, ref) == [heap |-> heap, ref |-> ref]

\* function clone(input): JSON.parse(JSON.stringify(input)), a new object
\* with the same content (the content holds finite numbers and strings)
clone(heap, ref) == [heap |-> Append(heap, heap[ref]), ref |-> Len(heap) + 1]

\* (a variant that finds the first day under every key)
LookupFirst(memo, n) ==
  IF memo # <<>> THEN memo[1].ref ELSE 0

\* the reference memo[n] holds, 0 when memo has no key n
Lookup(memo, n) ==
  IF \E j \in 1..Len(memo) : memo[j].day = n
  THEN memo[CHOOSE j \in 1..Len(memo) : memo[j].day = n].ref
  ELSE 0

\* categorize(memo[n], probe): the call through the function groupPerDay
\* was given, fn being that function's name
categorize(fn, memo, probe) ==
  IF fn = "timeUnit" THEN timeUnit(memo, probe) ELSE percentage(memo, probe)

\* function reduce(memo, probe): st is [heap, memo]; reference 1 is base,
\* memo lists its keys in the order they were added (the order of
\* Object.keys for keys that are epoch milliseconds)
reduce(fn, st, probe) ==
  LET n == Midnight(probe.start)
      found == Lookup(st.memo, n)
      c == IF found # 0 THEN [heap |-> st.heap, ref |-> found]
           ELSE clone(st.heap, 1)
  IN [heap |-> [c.heap EXCEPT ![c.ref] = categorize(fn, @, probe)],
      memo |-> IF found # 0 THEN st.memo
               ELSE Append(st.memo, [day |-> n, ref |-> c.ref])]

\* function maptoarray(stack, dayn), over Object.keys(result) from key j
\* on; t is the key, a string in the code, as the number it spells
RECURSIVE maptoarray(_, _, _)
maptoarray(stack, st, j) ==
  IF j > Len(st.memo) THEN stack
  ELSE LET units == st.heap[st.memo[j].ref]
       IN maptoarray(
            stack \o [u \in 1..Len(units) |->
                        [t |-> st.memo[j].day, values |-> units[u]]],
            st, j + 1)

\* groupPerDay(categorize, base)(samples): the points returned, and base as
\* the call leaves it
groupPerDay(fn, template, samples) ==
  LET result[k \in 0..Len(samples)] ==
        IF k = 0 THEN [heap |-> <<template>>, memo |-> <<>>]
        ELSE reduce(fn, result[k - 1], samples[k])
      final == result[Len(samples)]
  IN [out |-> maptoarray(<<>>, final, 1), base |-> final.heap[1]]

\* ------------------------------------------------------------ transform
\* Object.keys(pagelet.intervals).map(...): one empty bucket per interval;
\* a bucket's type is its key, here its JavaScript index
DeltaBase(ivs) ==
  [j \in 1..Len(ivs) |-> [modules |-> <<>>, type |-> j - 1, days |-> 0, n |-> 0]]

PublishBase ==
  << [type |-> "failure", percentage |-> 0, total |-> 0, n |-> 0, lower |-> 0],
     [type |-> "success", percentage |-> 0, total |-> 0, n |-> 0, lower |-> 0] >>

\* the second argument of each groupPerDay call, as the module is loaded
Bases(ivs) == [delta |-> DeltaBase(ivs), publish |-> PublishBase]

\* transform[type](samples), b the templates the closures hold: the points
\* returned and the templates after the call
transform(b, type, samples) ==
  CASE type = "ping" ->
         [out |-> movingAverage(LiveSteps, samples), base |-> b]
    [] type = "delta" ->
         LET r == groupPerDay("timeUnit", b.delta, samples)
         IN [out |-> r.out, base |-> [b EXCEPT !.delta = r.base]]
    [] type = "publish" ->
         LET r == groupPerDay("percentage", b.publish, samples)
         IN [out |-> r.out, base |-> [b EXCEPT !.publish = r.base]]

\* --------------------------------------------------------------- server
\* the keys of "for (var type in cache)" and "for (var registry in
\* cache[type])", in a fixed order
AllPairs ==
  << <<"ping", "r1">>, <<"ping", "r2">>, <<"delta", "r1">>, <<"delta", "r2">>,
     <<"publish", "r1">>, <<"publish", "r2">> >>

Pairs(cch) == SelectSeq(AllPairs, LAMBDA p : p[2] \in DOMAIN cch[p[1]])

\* the two loops of fetched: data[type][registry] =
\* transform[type](cache[type][registry].slice()); acc is [data, base]
RECURSIVE snapshot(_, _, _)
snapshot(pairs, acc, cch) ==
  IF pairs = <<>> THEN acc
  ELSE LET type == Head(pairs)[1]
           registry == Head(pairs)[2]
           r == transform(acc.base, type, cch[type][registry])
       IN snapshot(Tail(pairs),
                   [data |-> [acc.data EXCEPT ![type] = (registry :> r.out) @@ @],
                    base |-> r.base],
                   cch)

\* (a variant that lets an error through)
FatalNever(error) == FALSE

\* if (error) throw new Error(...)
Fatal(error) == error

\* function fetched(error, cache), cch the results async.parallel hands it
fetched(error, cch) ==
  IF Fatal(error)
  THEN UNCHANGED <<data, installed, listening, base>>
  ELSE LET s == snapshot(Pairs(cch),
                         [data |-> [t \in Types |-> EmptyObj], base |-> base],
                         cch)
       IN /\ listening' = TRUE
          /\ data' = s.data
          /\ installed' = TRUE
          /\ base' = s.base

\* (a variant that joins on the first task done)
JoinedEarly(st) == \E t \in Types : st[t] = "ok"

\* async.parallel: every task has called back without an error
Joined(st) == \A t \in Types : st[t] = "ok"

\* the body of ran after the error check
Process(probe) ==
  LET type == probe.name
      registry == probe.registry
  IN IF registry \notin DOMAIN cache[type]
     THEN \* TypeError: cache[type][registry] is undefined
          UNCHANGED <<cache, data, sent, base>>
     ELSE LET c == clone(<<probe>>, 1)      \* part; reference 1 is probe
              pushed == Append(cache[type][registry], probe)
              r == transform(base, type, SliceLast(pushed, SliceLen))
              point == r.out[Len(r.out)]
              heap == [c.heap EXCEPT ![c.ref].results = point]
          IN /\ cache' = [cache EXCEPT ![type][registry] = Append(@, heap[1])]
             /\ base' = r.base
             /\ IF registry \in DOMAIN data[type]
                THEN /\ data' = [data EXCEPT ![type][registry] = Append(@, point)]
                     /\ sent' = Append(sent, heap[c.ref])
                ELSE \* TypeError: data[type][registry] is undefined
                     UNCHANGED <<data, sent>>

\* (a variant without the error check)
ranUnchecked(error, probe) ==
  IF "name" \in DOMAIN probe THEN Process(probe)
  ELSE UNCHANGED <<cache, data, sent, base>>

\* function ran(error, probe)
ran(error, probe) ==
  IF error THEN UNCHANGED <<cache, data, sent, base>> ELSE Process(probe)

\* ------------------------------------------------------------- inputs
RECURSIVE Ascending(_)
Ascending(S) ==
  IF S = {} THEN <<>>
  ELSE LET least == CHOOSE x \in S : \A y \in S : x <= y
       IN <<least>> \o Ascending(S \ {least})

\* the ascending threshold lists of the configuration
IntervalLists == {Ascending(S) : S \in SUBSET (1..MaxThreshold) \ {{}}}

Lags == 0..(MaxThreshold + 1)

\* the results of a delta sample: with or without lag, with or without
\* a modules array
DeltaResults ==
  {[lag |-> [mean |-> x], modules |-> ms] : x \in Lags, ms \in ModuleLists}
  \cup {[lag |-> [mean |-> x]] : x \in Lags}
  \cup {[modules |-> ms] : ms \in ModuleLists}
  \cup {EmptyObj}

PingResults == UNION {[S -> Vals] : S \in SUBSET Metrics}
PingSamples == [start : Starts, results : PingResults]

Times == 0..(MaxDays * DayLen - 1)
HalfDay == DayLen \div 2

\* the publish samples of day d taken no later than the instant t
PublishSamples(d, t) ==
  {[start |-> st, results |-> [published |-> p]] :
     st \in {x \in Times : Midnight(x) = d /\ x <= t}, p \in {0, 1}}

\* the results a sample of each type carries where whole transforms run
ResultsOf(type) ==
  CASE type = "ping" -> [{"latency"} -> Vals]
    [] type = "delta" ->
         {[lag |-> [mean |-> 0], modules |-> <<"a">>],
          [lag |-> [mean |-> MaxThreshold + 1], modules |-> <<"a">>],
          [modules |-> <<"b">>]}
    [] type = "publish" -> [published : {0, 1}]

NoProbe == [start |-> 0, results |-> EmptyObj]

\* a sample as the collector emits it; id numbers the events (history)
Probe(id, type, registry, start, results) ==
  [id |-> id, name |-> type, registry |-> registry, start |-> start,
   results |-> results]

\* what list(type) may deliver: registry r1 with no sample or with one,
\* taken at instant 0
Histories(type) ==
  {[r \in {"r1"} |-> h] :
     h \in {<<>>} \cup
           {<<Probe(0, type, "r1", 0, x)>> :
              x \in {CHOOSE y \in ResultsOf(type) : TRUE}}}

\* the probe::ran events the collector may emit at instant t
Events(id, t) ==
  {[error |-> FALSE, probe |-> Probe(id, type, registry, t, x)] :
     type \in {"ping"}, registry \in Registries, x \in ResultsOf("ping")}
  \cup {[error |-> FALSE, probe |-> Probe(id, type, registry, t, x)] :
     type \in {"delta"}, registry \in Registries, x \in ResultsOf("delta")}
  \cup {[error |-> FALSE, probe |-> Probe(id, type, registry, t, x)] :
     type \in {"publish"}, registry \in Registries, x \in ResultsOf("publish")}
  \cup {[error |-> TRUE, probe |-> p] :
     p \in {NoProbe, Probe(id, "ping", "r1", t, [latency |-> 1])}}

\* ------------------------------------- the parts a specification leaves out
StartMA == maData = <<>> /\ maOut = <<>> /\ maDone = FALSE
IdleMA == maN = 0 /\ StartMA

IdleTU ==
  /\ tuMemo = <<>> /\ tuPrev = <<>> /\ tuProbe = NoProbe /\ tuCount = 0

IdlePC ==
  /\ pcDay = 0 /\ pcMemo = <<>> /\ pcPrev = <<>>
  /\ pcProbe = NoProbe /\ pcCount = 0

IdleTR == trType = "ping" /\ trData = <<>> /\ trOuts = <<>> /\ trDays = <<>>

\* the server as server() leaves it: three list() calls pending
StartSrv ==
  /\ fetchSt = [t \in Types |-> "pending"]
  /\ called = FALSE
  /\ cache = [t \in Types |-> EmptyObj]
  /\ data = [t \in Types |-> EmptyObj]
  /\ installed = FALSE
  /\ listening = FALSE
  /\ sent = <<>>
  /\ hist = [t \in Types |-> EmptyObj]
  /\ log = <<>>

\* ---------------------------------------- specification: moving average
InitMA ==
  /\ maN \in 0..MaxWindow
  /\ StartMA
  /\ intervals = <<1>> /\ base = Bases(intervals) /\ now = 0
  /\ IdleTU /\ IdlePC /\ IdleTR /\ StartSrv

\* the caller collects one more sample
MAAppend ==
  /\ ~maDone
  /\ Len(maData) < MaxLen
  /\ \E s \in PingSamples : maData' = Append(maData, s)
  /\ UNCHANGED <<maN, maOut, maDone, cfgVars, now, tuVars, pcVars, trVars, srvVars>>

\* the caller applies movingAverage(maN) to the samples
MAExecute ==
  /\ ~maDone
  /\ maOut' = movingAverage(maN, maData)
  /\ maDone' = TRUE
  /\ UNCHANGED <<maN, maData, cfgVars, now, tuVars, pcVars, trVars, srvVars>>

NextMA == MAAppend \/ MAExecute

SpecMA == InitMA /\ [][NextMA]_vars

\* ------------------------------------------ specification: timeUnit fold
InitTU ==
  /\ intervals \in IntervalLists
  /\ base = Bases(intervals)
  /\ now = 0
  /\ tuMemo = base.delta
  /\ tuPrev = tuMemo
  /\ tuProbe = NoProbe
  /\ tuCount = 0
  /\ IdleMA /\ IdlePC /\ IdleTR /\ StartSrv

\* groupPerDay folds the next delta sample of the day into the day's state
TUFold ==
  /\ tuCount < MaxFold
  /\ \E r \in DeltaResults :
       LET probe == [start |-> 0, results |-> r]
       IN /\ tuProbe' = probe
          /\ tuMemo' = timeUnit(tuMemo, probe)
  /\ tuPrev' = tuMemo
  /\ tuCount' = tuCount + 1
  /\ UNCHANGED <<cfgVars, now, maVars, pcVars, trVars, srvVars>>

NextTU == TUFold

SpecTU == InitTU /\ [][NextTU]_vars

\* ---------------------------------------- specification: percentage fold
InitPC ==
  /\ now \in Times
  /\ pcDay \in {Midnight(t) : t \in 0..now}
  /\ intervals = <<1>> /\ base = Bases(intervals)
  /\ pcMemo = base.publish
  /\ pcPrev = pcMemo
  /\ pcProbe = NoProbe
  /\ pcCount = 0
  /\ IdleMA /\ IdleTU /\ IdleTR /\ StartSrv

\* groupPerDay folds the next publish sample of the day into the day's state
PCFold ==
  /\ pcCount < MaxFold
  /\ \E probe \in PublishSamples(pcDay, now) :
       /\ pcProbe' = probe
       /\ pcMemo' = percentage(pcMemo, probe)
  /\ pcPrev' = pcMemo
  /\ pcCount' = pcCount + 1
  /\ UNCHANGED <<cfgVars, now, maVars, tuVars, pcDay, trVars, srvVars>>

\* time passes
PCTick ==
  /\ now + 1 \in Times
  /\ now' = now + 1
  /\ UNCHANGED <<cfgVars, maVars, tuVars, pcVars, trVars, srvVars>>

NextPC == PCFold \/ PCTick

SpecPC == InitPC /\ [][NextPC]_vars

\* ------------------------------------- specification: transform invoked
InitTR ==
  /\ trType \in Types
  /\ trData = <<>> /\ trOuts = <<>> /\ trDays = <<>>
  /\ now = 0
  /\ intervals \in IF trType = "delta" THEN IntervalLists ELSE {<<1>>}
  /\ base = Bases(intervals)
  /\ IdleMA /\ IdleTU /\ IdlePC /\ StartSrv

\* a sample of the type is taken now and joins the sequence
TRSample ==
  /\ trOuts = <<>>
  /\ Len(trData) < MaxData
  /\ \E r \in ResultsOf(trType) :
       trData' = Append(trData, [start |-> now, results |-> r])
  /\ UNCHANGED <<cfgVars, now, maVars, tuVars, pcVars, trType, trOuts, trDays,
                 srvVars>>

\* the transform of the type is invoked on the sequence, a first and a
\* second time
TRInvoke ==
  /\ Len(trOuts) < 2
  /\ LET r == transform(base, trType, trData)
     IN /\ trOuts' = Append(trOuts, r.out)
        /\ base' = r.base
  /\ trDays' = Append(trDays, Midnight(now))
  /\ UNCHANGED <<intervals, now, maVars, tuVars, pcVars, trType, trData, srvVars>>

\* time passes
TRTick ==
  /\ now + HalfDay \in Times
  /\ now' = now + HalfDay
  /\ UNCHANGED <<cfgVars, maVars, tuVars, pcVars, trVars, srvVars>>

NextTR == TRSample \/ TRInvoke \/ TRTick

SpecTR == InitTR /\ [][NextTR]_vars

\* ------------------------------------------------ specification: server
Init ==
  /\ intervals = Ascending(1..MaxThreshold)
  /\ base = Bases(intervals)
  /\ now = HalfDay
  /\ StartSrv
  /\ IdleMA /\ IdleTU /\ IdlePC /\ IdleTR

\* list(type, done) fails: async.parallel calls fetched with the error,
\* once
ListFails ==
  \E type \in Types :
    /\ fetchSt[type] = "pending"
    /\ fetchSt' = [fetchSt EXCEPT ![type] = "err"]
    /\ called' = TRUE
    /\ IF ~called THEN fetched(TRUE, cache)
       ELSE UNCHANGED <<data, installed, listening, base>>
    /\ UNCHANGED <<intervals, now, cache, sent, hist, log,
                   maVars, tuVars, pcVars, trVars>>

\* list(type, done) succeeds: async.parallel stores the result and, when
\* this was the last task and none failed, calls fetched
ListSucceeds ==
  \E type \in Types : \E h \in Histories(type) :
    LET st == [fetchSt EXCEPT ![type] = "ok"]
        cch == [cache EXCEPT ![type] = h]
    IN /\ fetchSt[type] = "pending"
       /\ fetchSt' = st
       /\ cache' = cch
       /\ hist' = [hist EXCEPT ![type] = h]
       /\ IF ~called /\ Joined(st)
          THEN called' = TRUE /\ fetched(FALSE, cch)
          ELSE UNCHANGED <<called, data, installed, listening, base>>
       /\ UNCHANGED <<intervals, now, sent, log, maVars, tuVars, pcVars, trVars>>

\* what the history keeps of an event: whether it carried an error, whether
\* a list() call was still pending, whether ran was registered, and the
\* type and registry of its sample
Entry(ev) ==
  [error |-> ev.error,
   early |-> \E t \in Types : fetchSt[t] = "pending",
   heard |-> listening,
   name |-> IF "name" \in DOMAIN ev.probe THEN ev.probe.name ELSE "",
   registry |-> IF "name" \in DOMAIN ev.probe THEN ev.probe.registry ELSE ""]

\* the collector emits probe::ran: ran runs when it is registered
Emit ==
  /\ Len(log) < MaxEvents
  /\ \E ev \in Events(Len(log) + 1, now) :
       /\ log' = Append(log, Entry(ev))
       /\ IF listening THEN ran(ev.error, ev.probe)
          ELSE UNCHANGED <<cache, data, sent, base>>
  /\ UNCHANGED <<intervals, now, fetchSt, called, installed, listening, hist,
                 maVars, tuVars, pcVars, trVars>>

\* time passes, into the next day at most
Tick ==
  /\ now + HalfDay <= DayLen
  /\ now' = now + HalfDay
  /\ UNCHANGED <<cfgVars, maVars, tuVars, pcVars, trVars, srvVars>>

Next == ListFails \/ ListSucceeds \/ Emit \/ Tick

Spec == Init /\ [][Next]_vars

\* ------------------------- specification: server with a long ping history
\* the ping samples list('ping') may deliver for registry r1: up to
\* MaxHistory of them, taken at instant 0
PingRuns ==
  UNION {[1..k -> {Probe(0, "ping", "r1", 0, x) : x \in ResultsOf("ping")}] :
           k \in 0..MaxHistory}

\* what list(type) may deliver: registry r1, with a run of ping samples or
\* with no delta and no publish sample
LongHistories(type) ==
  IF type = "ping" THEN {[r \in {"r1"} |-> h] : h \in PingRuns}
  ELSE {[r \in {"r1"} |-> <<>>]}

InitLV ==
  /\ intervals = <<1>>
  /\ base = Bases(intervals)
  /\ now = HalfDay
  /\ StartSrv
  /\ IdleMA /\ IdleTU /\ IdlePC /\ IdleTR

\* list(type, done) succeeds: async.parallel stores the result and, when
\* this was the last task, calls fetched
LVList ==
  \E type \in Types : \E h \in LongHistories(type) :
    LET st == [fetchSt EXCEPT ![type] = "ok"]
        cch == [cache EXCEPT ![type] = h]
    IN /\ fetchSt[type] = "pending"
       /\ fetchSt' = st
       /\ cache' = cch
       /\ hist' = [hist EXCEPT ![type] = h]
       /\ IF ~called /\ Joined(st)
          THEN called' = TRUE /\ fetched(FALSE, cch)
          ELSE UNCHANGED <<called, data, installed, listening, base>>
       /\ UNCHANGED <<intervals, now, sent, log, maVars, tuVars, pcVars, trVars>>

\* the collector emits probe::ran for a ping of registry r1, without an
\* error: ran runs when it is registered
LVEmit ==
  /\ Len(log) < MaxEvents
  /\ \E x \in ResultsOf("ping") :
       LET ev == [error |-> FALSE,
                  probe |-> Probe(Len(log) + 1, "ping", "r1", now, x)]
       IN /\ log' = Append(log, Entry(ev))
          /\ IF listening THEN ran(ev.error, ev.probe)
             ELSE UNCHANGED <<cache, data, sent, base>>
  /\ UNCHANGED <<intervals, now, fetchSt, called, installed, listening, hist,
                 maVars, tuVars, pcVars, trVars>>

NextLV == LVList \/ LVEmit

SpecLive == InitLV /\ [][NextLV]_vars

\* ======================================================== the claims
\* ------------------------------------------------------ moving average
\* the sum of metric m over the samples at JavaScript indices lo .. hi of
\* samples, every index below 0 replaced by 0
RECURSIVE WindowSum(_, _, _, _)
WindowSum(samples, m, lo, hi) ==
  IF lo > hi THEN 0
  ELSE Clamped(samples, lo).results[m] + WindowSum(samples, m, lo + 1, hi)

\* every sample at JavaScript indices lo .. hi (clamped) carries metric m
Carried(samples, m, lo, hi) ==
  \A k \in lo..hi : m \in DOMAIN Clamped(samples, k).results

\* C1 (as stated): the value of metric m at index i is the mean of m over
\* the n samples at indices i-n .. i-1, indices below 0 replaced by 0.
C1_Original ==
  maDone =>
    \A j \in 1..Len(maData) : \A m \in DOMAIN maData[j].results :
      LET i == j - 1
          n == Steps(maN)
      IN Carried(maData, m, i - n, i - 1) =>
           /\ m \in DOMAIN maOut[j].values
           /\ maOut[j].values[m] = WindowSum(maData, m, i - n, i - 1)

\* C1 (amended): for n >= 2 and non-negative metrics the value of metric m
\* at index i is the mean of m over the n samples at indices i-n+1 .. i
\* (the sample itself and the n-1 before it), indices below 0 replaced by
\* 0, the window never shrunk; for n = 1 the point carries no value.
C1_Amended ==
  maDone =>
    \A j \in 1..Len(maData) :
      LET i == j - 1
          n == Steps(maN)
      IN IF n = 1
         THEN maOut[j].values = EmptyObj
         ELSE \A m \in DOMAIN maData[j].results :
                Carried(maData, m, i - n + 1, i) =>
                  /\ m \in DOMAIN maOut[j].values
                  /\ maOut[j].values[m] = WindowSum(maData, m, i - n + 1, i)

\* C1 witness: window 2 over latencies 0, 1, 1: the point at index 0 is
\* clamped (0 + 0), the point at index 1 is 0 + 1 and not 0 + 0.
C1_Witness ==
  /\ maDone /\ maN = 2 /\ Len(maData) = 3
  /\ \A j \in 1..3 : "latency" \in DOMAIN maData[j].results
  /\ maData[1].results["latency"] = 0
  /\ maData[2].results["latency"] = 1
  /\ maOut[1].values["latency"] = 0
  /\ maOut[2].values["latency"] = 1
  /\ maOut[3].values["latency"] = 2

\* ------------------------------------------------------------ timeUnit
\* the JavaScript index of the first threshold >= lag, -1 when there is none
RECURSIVE FirstAtLeast(_, _)
FirstAtLeast(lag, i) ==
  IF i >= Len(intervals) THEN -1
  ELSE IF intervals[i + 1] >= lag THEN i ELSE FirstAtLeast(lag, i + 1)

\* C2 (as stated): a sample whose lag.mean is <= some threshold is counted
\* in the bucket at the first index whose threshold is >= lag.mean, for
\* every index from 0 to the last.
C2_Original ==
  (tuCount > 0 /\ HasLag(tuProbe)) =>
    LET first == FirstAtLeast(tuProbe.results.lag.mean, 0)
    IN first >= 0 => tuMemo[first + 1].n = tuPrev[first + 1].n + 1

\* C3: a sample whose lag.mean exceeds every threshold is counted once in
\* the last bucket of its day and in no other.
C3_CatchAll ==
  (/\ tuCount > 0 /\ HasLag(tuProbe)
   /\ FirstAtLeast(tuProbe.results.lag.mean, 0) = -1) =>
    \A j \in 1..Len(intervals) :
      tuMemo[j].n = tuPrev[j].n + (IF j = Len(intervals) THEN 1 ELSE 0)

\* C3 witness: three intervals, a second sample over the last threshold,
\* counted in the last bucket, which held no sample before.
C3_Witness ==
  /\ tuCount = 2 /\ Len(intervals) = 3 /\ HasLag(tuProbe)
  /\ tuProbe.results.lag.mean > intervals[3]
  /\ tuPrev[3].n = 0 /\ tuMemo[3].n = 1
  /\ tuPrev[2].n = 1 /\ tuMemo[2].n = 1

\* C10 (as stated): after any sequence of delta samples folded into one
\* day's state no bucket's modules list holds the same module name twice.
C10_Original ==
  \A j \in 1..Len(tuMemo) : \A x, y \in 1..Len(tuMemo[j].modules) :
    tuMemo[j].modules[x] = tuMemo[j].modules[y] => x = y

\* ----------------------------------------------------------- percentage
\* C8 (as stated): after any sequence of publish samples folded into a
\* day's state, the percentage of both slots is a number within [0, 100].
C8_Original ==
  pcCount > 0 =>
    \A j \in 1..2 : pcMemo[j].percentage >= 0 /\ pcMemo[j].percentage <= 100

\* ----------------------------------------------------------- transforms
\* C9 (as stated): two invocations of a transform on the identical sample
\* sequence, at any two instants, return identical output.
C9_Original ==
  Len(trOuts) = 2 => trOuts[1] = trOuts[2]

\* C9 (amended): two invocations of the ping or of the delta transform on
\* the identical sample sequence return identical output at any two
\* instants; two invocations of the publish transform do so when both are
\* made on the same local day.
C9_Amended ==
  (Len(trOuts) = 2 /\ (trType = "publish" => trDays[1] = trDays[2])) =>
    trOuts[1] = trOuts[2]

\* C9 witness: the delta transform invoked twice, on different days, on a
\* sequence of two samples, with some sample counted.
C9_Witness ==
  /\ trType = "delta" /\ Len(trData) = 2 /\ Len(trOuts) = 2
  /\ trDays[1] # trDays[2]
  /\ \E j \in 1..Len(trOuts[2]) : trOuts[2][j].values.n > 0

\* --------------------------------------------------------------- server
\* a list() call has not called back yet
Pending == \E t \in Types : fetchSt[t] = "pending"

\* the events ran received without an error, by their number
HeardOk == {j \in 1..Len(log) : log[j].heard /\ ~log[j].error}

\* the sample of event j is in the cache of its type and registry
Cached(j) ==
  /\ log[j].registry \in DOMAIN cache[log[j].name]
  /\ \E x \in 1..Len(cache[log[j].name][log[j].registry]) :
       cache[log[j].name][log[j].registry][x].id = j

\* the step is the emission of an event
Emitted == Len(log') = Len(log) + 1

\* C4 (as stated): the messages written correspond one to one and in order
\* to the events ran received without an error, for any type and registry,
\* and the sample of each such event is in the cache of its type and
\* registry.
C4_Original ==
  /\ Len(sent) = Cardinality(HeardOk)
  /\ \A j \in HeardOk :
       /\ Cached(j)
       /\ LET k == Cardinality({i \in HeardOk : i <= j})
          IN k <= Len(sent) /\ sent[k].id = j

\* C5: an event emitted while a list() call is pending is never processed:
\* while one is pending nothing is registered, installed, cached or sent;
\* the step that emits such an event changes neither cache, nor snapshot,
\* nor messages; and no cached sample or message ever stems from it.
C5_Inv ==
  /\ Pending =>
       /\ ~listening /\ ~installed /\ sent = <<>>
       /\ cache = hist
       /\ data = [t \in Types |-> EmptyObj]
  /\ \A k \in 1..Len(sent) : ~log[sent[k].id].early
  /\ \A t \in Types : \A r \in DOMAIN cache[t] :
       \A x \in 1..Len(cache[t][r]) :
         cache[t][r][x].id # 0 => ~log[cache[t][r][x].id].early

C5_Step ==
  (Emitted /\ log'[Len(log')].early) => UNCHANGED <<cache, data, sent>>

C5_Barrier == [](C5_Inv) /\ [][C5_Step]_vars

\* C5 witness: a sample of a registry with history was emitted while a
\* list() call was pending; the next one, emitted after the third call, was
\* processed and is the only message.
C5_Witness ==
  /\ listening /\ Len(log) = 2
  /\ log[1].early /\ ~log[1].error /\ log[1].registry = "r1"
  /\ hist[log[1].name]["r1"] # <<>>
  /\ ~log[2].early /\ ~log[2].error
  /\ Len(sent) = 1 /\ sent[1].id = 2

\* C6: once any list() call has failed, ran is not registered, no snapshot
\* is installed and nothing is sent, whatever the other two calls do.
C6_FatalFetch ==
  (\E t \in Types : fetchSt[t] = "err") =>
    ~listening /\ ~installed /\ sent = <<>>

\* C6 witness: the publish call failed after the other two had succeeded,
\* and a sample of a registry with history was emitted afterwards.
C6_Witness ==
  /\ fetchSt = [t \in Types |-> IF t = "publish" THEN "err" ELSE "ok"]
  /\ hist["ping"]["r1"] # <<>>
  /\ Len(log) = 1 /\ ~log[1].early /\ ~log[1].error
  /\ log[1].name = "ping" /\ log[1].registry = "r1"

\* C7: the step in which ran receives an event with an error changes no
\* cache sequence, no part of the snapshot and no message, and leaves ran
\* registered; the sample received right after such an event, for a
\* registry in the cache, is appended and sent.
C7_Step ==
  /\ (Emitted /\ log'[Len(log')].heard /\ log'[Len(log')].error) =>
       UNCHANGED <<cache, data, sent, listening>>
  /\ (/\ Emitted /\ Len(log) > 0
      /\ log[Len(log)].heard /\ log[Len(log)].error
      /\ ~log'[Len(log')].error
      /\ log'[Len(log')].registry \in DOMAIN cache[log'[Len(log')].name]) =>
       LET type == log'[Len(log')].name
           registry == log'[Len(log')].registry
       IN /\ Len(cache'[type][registry]) = Len(cache[type][registry]) + 1
          /\ Len(data'[type][registry]) = Len(data[type][registry]) + 1
          /\ Len(sent') = Len(sent) + 1

C7_ErrorDiscarded == [][C7_Step]_vars

\* C7 witness: ran received an event with an error and a sample, then a
\* sample without error, which alone was sent.
C7_Witness ==
  /\ Len(log) = 2
  /\ log[1].heard /\ log[1].error /\ log[1].name = "ping"
  /\ log[2].heard /\ ~log[2].error
  /\ Len(sent) = 1 /\ sent[1].id = 2

\* ---------------------------------------------------------- groupPerDay
\* the day keys a sample or the clock may fall on
DayKeys == {Midnight(t) : t \in Times}

\* the samples of the sequence whose day key is d
OfDay(samples, d) == SelectSeq(samples, LAMBDA s : Midnight(s.start) = d)

\* the sum of n over the points of day d in the output of a day grouping
RECURSIVE SumN(_, _)
SumN(points, d) ==
  IF points = <<>> THEN 0
  ELSE (IF Head(points).t = d THEN Head(points).values.n ELSE 0)
       + SumN(Tail(points), d)

\* C11: for every sample sequence given to the delta transform and every
\* day key, the sum of n over the interval buckets of that day is at most
\* the number of input samples of that day.
C11_DaySum ==
  trType = "delta" =>
    \A k \in 1..Len(trOuts) : \A d \in DayKeys :
      SumN(trOuts[k], d) <= Len(OfDay(trData, d))

\* C11 witness: the delta transform ran over one sample of the first day
\* and one of the second; each day holds exactly one counted sample.
C11_Witness ==
  /\ trType = "delta" /\ Len(trData) = 2 /\ Len(trOuts) >= 1
  /\ Midnight(trData[1].start) = 0 /\ Midnight(trData[2].start) = DayLen
  /\ SumN(trOuts[1], 0) = 1 /\ SumN(trOuts[1], DayLen) = 1

\* ---------------------------------------------------------------- cache
\* s begins with p
IsPrefix(p, s) == Len(p) <= Len(s) /\ SubSeq(s, 1, Len(p)) = p

\* C12: the cache is append-only.  Every sequence list() delivered stays
\* the beginning of its cache sequence, in the order delivered; a step
\* changes a cache sequence only by appending, at its end, the sample of
\* the event emitted in that step, with the results the collector gave it
\* (not the point computed for the message); no entry is reordered,
\* removed or altered.
C12_Inv ==
  \A t \in Types :
    /\ DOMAIN cache[t] = DOMAIN hist[t]
    /\ \A r \in DOMAIN cache[t] :
         /\ IsPrefix(hist[t][r], cache[t][r])
         /\ \A x \in 1..Len(cache[t][r]) :
              cache[t][r][x].results \in ResultsOf(t)

C12_Step ==
  \A t \in Types : \A r \in DOMAIN cache[t] :
    /\ r \in DOMAIN cache'[t]
    /\ \/ cache'[t][r] = cache[t][r]
       \/ /\ Emitted
          /\ ~log'[Len(log')].error /\ log'[Len(log')].heard
          /\ log'[Len(log')].name = t /\ log'[Len(log')].registry = r
          /\ Len(cache'[t][r]) = Len(cache[t][r]) + 1
          /\ IsPrefix(cache[t][r], cache'[t][r])
          /\ LET e == cache'[t][r][Len(cache'[t][r])]
             IN /\ e.id = Len(log') /\ e.name = t /\ e.registry = r
                /\ e.start = now /\ e.results \in ResultsOf(t)

C12_AppendOnly == [](C12_Inv) /\ [][C12_Step]_vars

\* C12 witness: two delta samples were appended to a fetched sequence of
\* one; each was sent with a computed point in place of its results, and
\* the three cached samples are in arrival order.
C12_Witness ==
  /\ "r1" \in DOMAIN cache["delta"]
  /\ Len(hist["delta"]["r1"]) = 1 /\ Len(cache["delta"]["r1"]) = 3
  /\ cache["delta"]["r1"][1] = hist["delta"]["r1"][1]
  /\ cache["delta"]["r1"][2].id = 1 /\ cache["delta"]["r1"][3].id = 2
  /\ Len(sent) = 2
  /\ sent[1].id = 1 /\ sent[1].results # cache["delta"]["r1"][2].results

\* ------------------------------------------------- moving average, again
\* C13: movingAverage(n)(samples) returns as many points as there are
\* samples, and the point at index i has t equal to the start of the
\* sample at index i.
C13_Points ==
  maDone =>
    /\ Len(maOut) = Len(maData)
    /\ \A j \in 1..Len(maData) : maOut[j].t = maData[j].start

\* C13 witness: three samples, the second started at another instant than
\* the first, gave three points.
C13_Witness ==
  /\ maDone /\ Len(maData) = 3 /\ Len(maOut) = 3
  /\ maData[2].start # maData[1].start
  /\ maOut[2].t = maData[2].start

\* C14 (as stated): when a sample of the window lacks a metric the sample
\* at index i carries, the point at index i holds no NaN.
C14_Original ==
  maDone =>
    \A j \in 1..Len(maOut) : \A m \in DOMAIN maOut[j].values :
      maOut[j].values[m] # NaN

\* ------------------------------------------------------- timeUnit, again
\* the JavaScript index of the interval a lag is classified in: the first
\* whose threshold is >= lag, the last when there is none
Classified(lag) ==
  IF FirstAtLeast(lag, 0) = -1 THEN Len(intervals) - 1
  ELSE FirstAtLeast(lag, 0)

\* C15 (as stated): a delta sample with a lag changes exactly one bucket
\* of the day's state, the bucket of its classified interval: its days
\* grows by lag.mean over the day constant (here: the numerator by
\* lag.mean), its n by one; days, n and modules of every other bucket are
\* unchanged.
C15_Original ==
  (tuCount > 0 /\ HasLag(tuProbe)) =>
    LET mean == tuProbe.results.lag.mean
        c == Classified(mean) + 1
    IN \A j \in 1..Len(intervals) :
         IF j = c
         THEN /\ tuMemo[j].days = tuPrev[j].days + mean
              /\ tuMemo[j].n = tuPrev[j].n + 1
         ELSE /\ tuMemo[j].days = tuPrev[j].days
              /\ tuMemo[j].n = tuPrev[j].n
              /\ tuMemo[j].modules = tuPrev[j].modules

\* C16 (as stated): a delta sample without a lag contributes to no bucket:
\* days, n and modules of every bucket of its day stay as they were.
C16_Original ==
  (tuCount > 0 /\ ~HasLag(tuProbe)) =>
    \A j \in 1..Len(intervals) :
      /\ tuMemo[j].days = tuPrev[j].days
      /\ tuMemo[j].n = tuPrev[j].n
      /\ tuMemo[j].modules = tuPrev[j].modules

\* --------------------------------------------------- groupPerDay, again
\* the function each day-grouping transform categorizes with
CategorizeOf(type) == IF type = "delta" THEN "timeUnit" ELSE "percentage"

\* a day's state after the samples were folded into state st, in order
RECURSIVE Folded(_, _, _)
Folded(fn, st, samples) ==
  IF samples = <<>> THEN st
  ELSE Folded(fn, categorize(fn, st, Head(samples)), Tail(samples))

\* the values of the points of day d in the output of a day grouping
ValuesOf(points, d) ==
  LET ps == SelectSeq(points, LAMBDA p : p.t = d)
  IN [j \in 1..Len(ps) |-> ps[j].values]

\* C17: every day starts from an independent copy of the template.  After
\* any number of invocations the templates equal their initial value, and
\* the state a day-grouping transform returns for a day is the template
\* with that day's samples folded into it in arrival order, whatever the
\* samples of other days and whatever was invoked before (for an
\* invocation made on the local day the clock shows: percentage reads it).
C17_Independent ==
  /\ base = Bases(intervals)
  /\ trType # "ping" =>
       \A k \in 1..Len(trOuts) :
         trDays[k] = Midnight(now) =>
           \A d \in DayKeys :
             ValuesOf(trOuts[k], d) =
               IF OfDay(trData, d) = <<>> THEN <<>>
               ELSE Folded(CategorizeOf(trType), Bases(intervals)[trType],
                           OfDay(trData, d))

\* C17 witness: the publish transform was invoked twice on a failure of
\* the first day and a success of the second; the second invocation shows
\* one failure on the first day and none on the second.
C17_Witness ==
  /\ trType = "publish" /\ Len(trData) = 2 /\ Len(trOuts) = 2
  /\ Midnight(trData[1].start) = 0 /\ Midnight(trData[2].start) = DayLen
  /\ trData[1].results.published = 0 /\ trData[2].results.published = 1
  /\ trDays[2] = Midnight(now)
  /\ ValuesOf(trOuts[2], 0)[1].n = 1 /\ ValuesOf(trOuts[2], DayLen)[1].n = 0

\* ------------------------------------------------------ percentage, again
\* C18: after every publish sample folded, the failure slot's lower equals
\* the success slot's current percentage and the success slot's lower is
\* still 0; while no success sample of the day was folded, the failure
\* slot's lower is 0.
C18_CrossLink ==
  pcCount > 0 =>
    /\ pcMemo[1].lower = pcMemo[2].percentage
    /\ pcMemo[2].lower = 0
    /\ pcMemo[2].n = 0 => pcMemo[1].lower = 0

\* C18 witness: a failure, then a success: lower was 0 after the failure
\* and is the success percentage, not 0, after the success.
C18_Witness ==
  /\ pcCount = 2
  /\ pcPrev[1].n = 1 /\ pcPrev[2].n = 0 /\ pcPrev[1].lower = 0
  /\ pcProbe.results.published = 1
  /\ pcMemo[2].percentage # 0
  /\ pcMemo[1].lower = pcMemo[2].percentage

\* C19: after any sequence of publish samples folded into one day's state
\* the two slots hold the same total, and folding a sample never lowers
\* it.
C19_Totals ==
  /\ pcMemo[1].total = pcMemo[2].total
  /\ pcMemo[1].total >= pcPrev[1].total
  /\ pcMemo[2].total >= pcPrev[2].total

\* C19 witness: a failure set the total, a later success raised it for
\* both slots.
C19_Witness ==
  /\ pcCount = 2
  /\ pcPrev[1].n = 1 /\ pcPrev[2].n = 0 /\ pcPrev[1].total > 0
  /\ pcProbe.results.published = 1
  /\ pcMemo[2].total > pcPrev[2].total
  /\ pcMemo[1].total = pcMemo[2].total

\* ------------------------------------------------- incremental snapshot
\* C20: after a successful bootstrap and any sequence of live ping events
\* for a registry of the fetched history, the snapshot sequence of (ping,
\* registry) is movingAverage(3) of the registry's whole cache, although
\* each live point was computed from the last 10 cached samples.
C20_Incremental ==
  installed =>
    \A r \in DOMAIN cache["ping"] :
      /\ r \in DOMAIN data["ping"]
      /\ data["ping"][r] = movingAverage(LiveSteps, cache["ping"][r])

\* C20 witness: two live pings followed a history of at least 10 samples,
\* so that both live points were computed from a slice shorter than the
\* cache, and the last point is not zero.
C20_Witness ==
  /\ installed
  /\ Len(hist["ping"]["r1"]) >= SliceLen
  /\ Len(cache["ping"]["r1"]) = Len(hist["ping"]["r1"]) + 2
  /\ Len(sent) = 2
  /\ Len(data["ping"]["r1"]) = Len(cache["ping"]["r1"])
  /\ data["ping"]["r1"][Len(data["ping"]["r1"])].values["latency"] > 0

====
